---- MODULE Spec2Model ----
(***************************************************************************)
(* Model of the transport layer (axios clients with retry helpers and      *)
(* bearer-token interceptors) and of the cache-synchronization hooks       *)
(* (react-query mutations with optimistic updates) of AICoolEcommece.      *)
(***************************************************************************)
EXTENDS Integers, Sequences, FiniteSets, TLC

(***************************************************************************)
(* PART 1 - TRANSPORT LAYER                                                *)
(***************************************************************************)

\* Bound: how many times the exported token setters are called in a run.
MaxSetCalls == 1

\* Token values a backend or a caller may supply; NoToken is JavaScript null.
Tokens == {"abc", "xyz"}
NoToken == "null"

\* Retry ceilings and delays, one per service module.
MAX_RETRIES_customers == 3
RETRY_DELAY_customers == 500
MAX_RETRIES_products == 3
RETRY_DELAY_products == 500
MAX_RETRIES_subscriptions == 3
MAX_RETRIES_hpp == 3
MAX_RETRIES_identity == 3
MAX_RETRIES_payment == 2
RETRY_DELAY_payment == 800
MAX_RETRIES_recurring == 2
MAX_RETRIES_invoices == 2
MAX_RETRIES_paymentTransactions == 3
MAX_RETRIES_authorize == 3
RETRY_DELAY_authorize == 500
MAX_RETRIES_countries == 3
RETRY_DELAY_countries == 500
MAX_RETRIES_paymentMethods == 3
\* Base of the linear backoff written inline as 500 * (attempt + 1).
LINEAR_BASE_subscriptions == 500
LINEAR_BASE_hpp == 500
LINEAR_BASE_invoices == 500
LINEAR_BASE_paymentTransactions == 500

\* The exported transport functions.
Fns ==
  { "getCustomers", "postCustomer", "putCustomer", "getProducts",
    "getSubscriptions", "createSubscription", "createZuoraHppInstance",
    "postIdentityToken", "postPayment", "putRecurringPaymentMethod",
    "getInvoices", "putPaymentTransaction", "postAuthorizeClient",
    "getCountries", "getPaymentMethods" }

\* The service module (one axios instance, one token store) of a function.
ModuleOf(fn) ==
  CASE fn \in {"getCustomers", "postCustomer", "putCustomer"} -> "customers"
    [] fn = "getProducts" -> "products"
    [] fn \in {"getSubscriptions", "createSubscription"} -> "subscriptions"
    [] fn = "createZuoraHppInstance" -> "hpp"
    [] fn = "postIdentityToken" -> "identity"
    [] fn = "postPayment" -> "payment"
    [] fn = "putRecurringPaymentMethod" -> "recurring"
    [] fn = "getInvoices" -> "invoices"
    [] fn = "putPaymentTransaction" -> "paymentTransactions"
    [] fn = "postAuthorizeClient" -> "authorize"
    [] fn = "getCountries" -> "countries"
    [] fn = "getPaymentMethods" -> "paymentMethods"

\* Module-level token variables (let authToken / let accessToken).
VarStores ==
  { "products", "subscriptions", "hpp", "identity", "recurring", "invoices",
    "paymentTransactions", "authorize", "countries" }
\* localStorage items read by the request interceptors.
StorageKeys == {"authToken", "access_token"}
Stores == VarStores \cup StorageKeys

\* Where the request interceptor of a module reads the bearer token from.
StoreOf(m) ==
  CASE m = "customers" -> "authToken"
    [] m \in {"payment", "paymentMethods"} -> "access_token"
    [] OTHER -> m

\* Modules that export a setter for their token variable.
SetterStores == VarStores

(***************************************************************************)
(* HTTP responses and JavaScript error values                              *)
(***************************************************************************)
NoBody == [title |-> "", status |-> 0]
ProblemBody(s) == [title |-> "Bad", status |-> s]

\* status 0: no response at all (network error or the 10 s timeout).
ErrorResponses ==
  {[status |-> 0, body |-> NoBody, tok |-> NoToken]} \cup
  {[status |-> s, body |-> b, tok |-> NoToken] :
      s \in {400, 401, 503}, b \in {NoBody}} \cup
  {[status |-> s, body |-> ProblemBody(s), tok |-> NoToken] : s \in {400, 401, 503}}

\* A 2xx response; only the identity endpoint answers with a token.
OkResponses(fn) ==
  IF fn = "postIdentityToken"
    THEN {[status |-> 200, body |-> NoBody, tok |-> t] : t \in Tokens \cup {NoToken}}
    ELSE {[status |-> 200, body |-> NoBody, tok |-> NoToken]}

NoResponse == [status |-> -1, body |-> NoBody, tok |-> NoToken]

\* The AxiosError axios rejects with: error.response is set iff status # 0.
AxiosErr(r) == [kind |-> "axios", status |-> r.status, body |-> r.body]
\* A plain object thrown instead (a response body, or a synthesized problem).
Plain(b) == [kind |-> "plain", status |-> 0, body |-> b]
NoError == [kind |-> "none", status |-> 0, body |-> NoBody]

isAxiosError(e) == e.kind = "axios"
\* error.response is truthy.
HasResponse(e) == e.kind = "axios" /\ e.status # 0
\* error.response && error.response.data is truthy.
HasData(e) == HasResponse(e) /\ e.body # NoBody

(***************************************************************************)
(* The retry helpers, one group per service module.  Each catch block is  *)
(* an operator from (attempt, error) to what the helper does next:        *)
(*   sleep ms  - wait ms, then go to the next iteration / recursive call  *)
(*   next      - go to the next iteration / recursive call at once        *)
(*   throw val - reject the call with val                                 *)
(***************************************************************************)
Sleep(ms) == [act |-> "sleep", ms |-> ms, val |-> NoError]
Continue == [act |-> "next", ms |-> 0, val |-> NoError]
Throw(v) == [act |-> "throw", ms |-> 0, val |-> v]

\* customers: retryRequest
customers_guard(attempt) == attempt < MAX_RETRIES_customers
customers_catch(attempt, error) ==
  IF attempt < MAX_RETRIES_customers - 1
    THEN Sleep(RETRY_DELAY_customers) ELSE Continue
customers_after(lastError) ==
  IF HasData(lastError) THEN Plain(lastError.body) ELSE lastError

\* products: requestWithRetry, and the catch of getProducts around it
products_guard(attempt) == attempt < MAX_RETRIES_products
products_catch(attempt, error) ==
  IF attempt < MAX_RETRIES_products - 1
    THEN Sleep(RETRY_DELAY_products) ELSE Continue
products_after(lastError) == lastError
getProducts_catch(error) ==
  IF HasData(error) THEN Plain(error.body) ELSE error

\* subscriptions: retryRequest
subscriptions_guard(attempt) == attempt < MAX_RETRIES_subscriptions
subscriptions_catch(attempt, error) ==
  IF ~HasResponse(error) \/ error.status >= 500
    THEN Sleep(LINEAR_BASE_subscriptions * (attempt + 1))
    ELSE Throw(error)
subscriptions_after(lastError) == lastError

\* hpp: retryRequest
hpp_guard(attempt) == attempt < MAX_RETRIES_hpp
hpp_catch(attempt, error) ==
  IF isAxiosError(error) /\ (~HasResponse(error) \/ error.status >= 500)
    THEN Sleep(LINEAR_BASE_hpp * (attempt + 1))
    ELSE Throw(error)
hpp_after(lastError) == lastError

\* identity: the catch of the recursive postIdentityToken
identity_catch(retries, error) ==
  IF retries < MAX_RETRIES_identity /\ isAxiosError(error)
       /\ (~HasResponse(error) \/ error.status >= 500)
    THEN Continue
    ELSE IF isAxiosError(error) /\ HasData(error)
           THEN Throw(Plain(error.body))
           ELSE Throw(error)

\* payment: the catch of the recursive postPayment
payment_catch(retries, error) ==
  IF retries < MAX_RETRIES_payment /\ isAxiosError(error)
       /\ (~HasResponse(error) \/ error.status >= 500)
    THEN Sleep(RETRY_DELAY_payment * (retries + 1))
    ELSE IF isAxiosError(error) /\ HasData(error)
           THEN Throw(Plain(error.body))
           ELSE Throw(error)

\* recurring: retryRequest
recurring_guard(attempt) == attempt <= MAX_RETRIES_recurring
recurring_catch(attempt, err) ==
  IF isAxiosError(err) /\ (~HasResponse(err) \/ err.status >= 500)
       /\ attempt < MAX_RETRIES_recurring
    THEN Continue
    ELSE Throw(err)
recurring_after(lastError) == lastError

\* invoices: the inner try/catch of getInvoices, then retryRequest
getInvoices_catch(error) ==
  IF HasData(error) THEN Plain(error.body) ELSE error
invoices_guard(attempt) == attempt <= MAX_RETRIES_invoices
invoices_catch(attempt, error) ==
  IF attempt = MAX_RETRIES_invoices \/ (HasResponse(error) /\ error.status < 500)
    THEN Throw(error)
    ELSE Sleep(LINEAR_BASE_invoices * (attempt + 1))
invoices_after(lastError) == lastError

\* paymentTransactions: retryRequest
paymentTransactions_guard(attempt) == attempt < MAX_RETRIES_paymentTransactions
paymentTransactions_catch(attempt, err) ==
  IF attempt = MAX_RETRIES_paymentTransactions - 1
    THEN Throw(err)
    ELSE Sleep(LINEAR_BASE_paymentTransactions * (attempt + 1))
paymentTransactions_after(lastError) == lastError

\* authorize: the inner try/catch of postAuthorizeClient, then retryRequest
postAuthorizeClient_catch(error) ==
  IF isAxiosError(error) /\ HasData(error) THEN Plain(error.body) ELSE error
authorize_guard(i) == i < MAX_RETRIES_authorize
authorize_catch(i, err) ==
  IF i < MAX_RETRIES_authorize - 1 THEN Sleep(RETRY_DELAY_authorize) ELSE Continue
authorize_after(lastError) == lastError

\* countries: retryRequest, and the catch of getCountries around it, which
\* resolves with {data: [], error: problem}
countries_guard(attempt) == attempt < MAX_RETRIES_countries
countries_catch(attempt, err) ==
  IF attempt < MAX_RETRIES_countries - 1
    THEN Sleep(RETRY_DELAY_countries) ELSE Continue
countries_after(lastError) == lastError
getCountries_catch(error) ==
  [kind |-> "countriesResult", status |-> 0,
   body |-> IF HasData(error) THEN error.body ELSE NoBody]

\* A catch that calls getPaymentMethods again whatever retryCount is.
paymentMethods_catch_noCeiling(retryCount, error) == Continue
\* paymentMethods: the catch of the recursive getPaymentMethods
paymentMethods_catch(retryCount, error) ==
  IF retryCount < MAX_RETRIES_paymentMethods
    THEN Continue
    ELSE IF HasData(error)
           THEN Throw(Plain(error.body))
           ELSE Throw(Plain([title |-> "Unknown error", status |-> 500]))

(***************************************************************************)
(* Dispatch on the module of the function being called                     *)
(***************************************************************************)
\* The loop condition of the helper (the recursive functions have none).
Guard(fn, attempt) ==
  LET m == ModuleOf(fn) IN
  CASE m = "customers" -> customers_guard(attempt)
    [] m = "products" -> products_guard(attempt)
    [] m = "subscriptions" -> subscriptions_guard(attempt)
    [] m = "hpp" -> hpp_guard(attempt)
    [] m = "recurring" -> recurring_guard(attempt)
    [] m = "invoices" -> invoices_guard(attempt)
    [] m = "paymentTransactions" -> paymentTransactions_guard(attempt)
    [] m = "authorize" -> authorize_guard(attempt)
    [] m = "countries" -> countries_guard(attempt)
    [] OTHER -> TRUE

\* What the closure handed to the helper throws for an axios rejection.
Inner(fn, e) ==
  CASE fn = "getInvoices" -> getInvoices_catch(e)
    [] fn = "postAuthorizeClient" -> postAuthorizeClient_catch(e)
    [] OTHER -> e

Catch(fn, attempt, e) ==
  LET m == ModuleOf(fn) IN
  CASE m = "customers" -> customers_catch(attempt, e)
    [] m = "products" -> products_catch(attempt, e)
    [] m = "subscriptions" -> subscriptions_catch(attempt, e)
    [] m = "hpp" -> hpp_catch(attempt, e)
    [] m = "identity" -> identity_catch(attempt, e)
    [] m = "payment" -> payment_catch(attempt, e)
    [] m = "recurring" -> recurring_catch(attempt, e)
    [] m = "invoices" -> invoices_catch(attempt, e)
    [] m = "paymentTransactions" -> paymentTransactions_catch(attempt, e)
    [] m = "authorize" -> authorize_catch(attempt, e)
    [] m = "countries" -> countries_catch(attempt, e)
    [] m = "paymentMethods" -> paymentMethods_catch(attempt, e)

\* What the helper throws once its loop has run out.
After(fn, lastError) ==
  LET m == ModuleOf(fn) IN
  CASE m = "customers" -> customers_after(lastError)
    [] m = "products" -> products_after(lastError)
    [] m = "subscriptions" -> subscriptions_after(lastError)
    [] m = "hpp" -> hpp_after(lastError)
    [] m = "recurring" -> recurring_after(lastError)
    [] m = "invoices" -> invoices_after(lastError)
    [] m = "paymentTransactions" -> paymentTransactions_after(lastError)
    [] m = "authorize" -> authorize_after(lastError)
    [] m = "countries" -> countries_after(lastError)
    [] OTHER -> lastError

\* Exported functions that all let the helper's error through.
Settle_rethrow(fn, v) == [state |-> "rejected", val |-> v]
\* How the exported function settles when its helper throws v.
Settle(fn, v) ==
  CASE fn = "getProducts" -> [state |-> "rejected", val |-> getProducts_catch(v)]
    [] fn = "getCountries" -> [state |-> "resolved", val |-> getCountries_catch(v)]
    [] OTHER -> [state |-> "rejected", val |-> v]

(***************************************************************************)
(* State of the transport layer                                            *)
(***************************************************************************)
VARIABLES
  call,      \* the transport call in progress: its function, position, locals
  token,     \* the bearer token of every store (module variable or storage item)
  setCalls,  \* how many times an exported setter has been called
  authed     \* token of a postIdentityToken that has just resolved, while
             \* nothing else has happened since; NoToken otherwise

transportVars == <<call, token, setCalls, authed>>

VARIABLES
  cache,        \* query key -> data of the query (Undefined: no data)
  fetch,        \* query key -> the fetch in flight for it, if any
  invalidated,  \* query key -> the query is marked invalidated
  mounted,      \* the query key the page on screen observes
  server,       \* resource -> what the backend holds
  mut,          \* the mutations: hook, variables, position, context
  overlay       \* query key -> the mutations whose optimistic patch is part of
                \* the data now cached under the key

cacheVars == <<cache, fetch, invalidated, mounted, server, mut, overlay>>

VARIABLE
  view          \* the paginated query hook a component renders: its options,
                \* its params, the pages cached and in flight, the data returned

VARIABLE
  reqs          \* the postIdentityToken calls that run side by side

VARIABLE
  checkout      \* the CheckoutForm on its last step and its handleSubmit run

vars == <<call, token, setCalls, authed, cache, fetch, invalidated, mounted,
          server, mut, overlay, view, reqs, checkout>>

IdleCall ==
  [ fn |-> "none", pc |-> "idle",
    attempt |-> 0,            \* the loop counter / the retries parameter
    sent |-> 0,               \* HTTP requests issued by this call
    hdr |-> NoToken,          \* token in the Authorization header of the last request
    lastError |-> NoError,    \* the helper's lastError / the caught error
    firstResp |-> NoResponse, \* what the first attempt received
    lastResp |-> NoResponse,  \* what the latest attempt received
    all503 |-> TRUE,          \* every attempt so far received a 503
    delays |-> << >>,         \* the timers awaited, in order
    state |-> "pending", val |-> NoError ]

TransportInit ==
  /\ call = IdleCall
  /\ token \in {f \in [Stores -> Tokens \cup {NoToken}] :
                  /\ \A s \in VarStores : f[s] = NoToken
                  /\ \A s \in StorageKeys : f[s] \in {NoToken, "abc"}}
  /\ setCalls = 0
  /\ authed = NoToken

\* The request interceptor: the token put in the Authorization header
\* (NoToken: the header is omitted).
RequestInterceptor(fn) == token[StoreOf(ModuleOf(fn))]

\* An error handler that clears the token on every error response.
ResponseInterceptor_anyStatus(m, r) ==
  IF r.status # 0 /\ m \in {"identity", "authorize"}
    THEN [token EXCEPT ![m] = NoToken]
    ELSE token
\* The response interceptor's error handler: the token stores after a
\* rejected response r of module m.
ResponseInterceptor(m, r) ==
  IF r.status = 401 /\ m \in {"identity", "authorize"}
    THEN [token EXCEPT ![m] = NoToken]
    ELSE token

\* The success path of postIdentityToken: setAuthToken(response.data.token).
IdentitySuccess(fn, r) ==
  IF fn = "postIdentityToken" /\ r.tok # NoToken
    THEN [token EXCEPT !["identity"] = r.tok]
    ELSE token

\* A caller invokes transport function fn.
Call(fn) ==
  /\ call.pc \in {"idle", "done"}
  /\ call' = [IdleCall EXCEPT !.fn = fn, !.pc = "head"]
  /\ UNCHANGED <<token, setCalls, authed>>
  /\ UNCHANGED <<cacheVars, view, reqs, checkout>>

\* The helper enters an iteration (or the recursive function is entered) and
\* the request goes out through the request interceptor.
Issue ==
  /\ call.pc = "head"
  /\ Guard(call.fn, call.attempt)
  /\ call' = [call EXCEPT !.pc = "inflight", !.sent = @ + 1,
                          !.hdr = RequestInterceptor(call.fn)]
  /\ authed' = NoToken
  /\ UNCHANGED <<token, setCalls>>
  /\ UNCHANGED <<cacheVars, view, reqs, checkout>>

\* The helper's loop has run out: it throws after the loop.
Exhaust ==
  /\ call.pc = "head"
  /\ ~Guard(call.fn, call.attempt)
  /\ LET s == Settle(call.fn, After(call.fn, call.lastError)) IN
       call' = [call EXCEPT !.pc = "done", !.state = s.state, !.val = s.val]
  /\ authed' = NoToken
  /\ UNCHANGED <<token, setCalls>>
  /\ UNCHANGED <<cacheVars, view, reqs, checkout>>

\* A 2xx response arrives.
RespondOk(r) ==
  /\ call.pc = "inflight"
  /\ r \in OkResponses(call.fn)
  /\ call' = [call EXCEPT !.pc = "done", !.state = "resolved",
                          !.val = [kind |-> "data", status |-> 200, body |-> NoBody],
                          !.lastResp = r,
                          !.firstResp = IF call.sent = 1 THEN r ELSE @,
                          !.all503 = FALSE]
  /\ token' = IdentitySuccess(call.fn, r)
  /\ authed' = IF call.fn = "postIdentityToken" THEN r.tok ELSE NoToken
  /\ UNCHANGED setCalls
  /\ UNCHANGED <<cacheVars, view, reqs, checkout>>

\* An error response, a network error or a timeout arrives.
RespondError(r) ==
  /\ call.pc = "inflight"
  /\ r \in ErrorResponses
  /\ LET e == Inner(call.fn, AxiosErr(r))
         d == Catch(call.fn, call.attempt, e)
         s == Settle(call.fn, d.val)
         c1 == [call EXCEPT !.lastError = e, !.lastResp = r,
                            !.firstResp = IF call.sent = 1 THEN r ELSE @,
                            !.all503 = @ /\ r.status = 503]
     IN  call' =
           CASE d.act = "sleep" ->
                  [c1 EXCEPT !.pc = "delay", !.delays = Append(@, d.ms)]
             [] d.act = "next" ->
                  [c1 EXCEPT !.pc = "head", !.attempt = @ + 1]
             [] d.act = "throw" ->
                  [c1 EXCEPT !.pc = "done", !.state = s.state, !.val = s.val]
  /\ token' = ResponseInterceptor(ModuleOf(call.fn), r)
  /\ authed' = NoToken
  /\ UNCHANGED setCalls
  /\ UNCHANGED <<cacheVars, view, reqs, checkout>>

\* The awaited timer fires: next iteration / recursive call.
Timer ==
  /\ call.pc = "delay"
  /\ call' = [call EXCEPT !.pc = "head", !.attempt = @ + 1]
  /\ authed' = NoToken
  /\ UNCHANGED <<token, setCalls>>
  /\ UNCHANGED <<cacheVars, view, reqs, checkout>>

\* A caller invokes the exported setter of module s with token t.
SetToken(s, t) ==
  /\ setCalls < MaxSetCalls
  /\ s \in SetterStores
  /\ token' = [token EXCEPT ![s] = t]
  /\ setCalls' = setCalls + 1
  /\ authed' = NoToken
  /\ UNCHANGED call
  /\ UNCHANGED <<cacheVars, view, reqs, checkout>>

(***************************************************************************)
(* PART 2 - CACHE-SYNCHRONIZATION LAYER                                    *)
(***************************************************************************)

\* Bound: mutations started in a run.
MaxMutations == 2
Muts == 1..MaxMutations

\* Query keys.  A key is the array handed to the query client; the second
\* component stands for the params object ("{}" the empty object, "p1" a
\* page, "null" an undefined that the key hash turns into null).
KeyCustomers == <<"customers">>
KeyCustomersPage == <<"customers", "p1">>
KeyPaymentMethods == <<"payment-methods">>
KeyPaymentMethodsPage == <<"payment-methods", "p1">>
KeySubscriptions == <<"subscriptions", "{}">>
KeySubscriptionDetail == <<"subscriptionDetail", "s1">>
KeySubscriptionDetailPage == <<"subscriptionDetail", "s1", "null">>
KeyPaymentTransaction == <<"payment-transaction", "t1">>
KeyAuthorizeClient == <<"authorizeClient">>

Keys ==
  { KeyCustomers, KeyCustomersPage, KeyPaymentMethods, KeyPaymentMethodsPage,
    KeySubscriptions, KeySubscriptionDetail, KeySubscriptionDetailPage,
    KeyPaymentTransaction, KeyAuthorizeClient }

\* The keys the query hooks read: useCustomers(params), usePaymentMethods(params),
\* useSubscriptions(), useSubscriptionDetail(number).
QueryHookKeys ==
  { KeyCustomersPage, KeyPaymentMethodsPage, KeySubscriptions,
    KeySubscriptionDetailPage }

\* The query client's partial match: the filter key is a prefix of the key.
Matches(filter, k) ==
  /\ Len(filter) <= Len(k)
  /\ \A i \in 1..Len(filter) : filter[i] = k[i]
Matching(filter) == {k \in Keys : Matches(filter, k)}

\* data === undefined
Undefined == [undefined |-> TRUE]

Page(entries, total) ==
  [entries |-> entries, total |-> total, page |-> 1, pageSize |-> 10]

\* What the backend holds at the start, per resource.
PaymentMethod(id, isDefault) ==
  [id |-> id, isDefault |-> isDefault, paymentMethodType |-> "card",
   creditCardData |-> "null"]
Customer(accountId, firstName) ==
  [accountNumber |-> accountId, firstName |-> firstName, lastName |-> "Lee",
   email |-> "a@x", currency |-> "EUR", phoneNumber |-> "1",
   addresses |-> "addr1", additionalEmails |-> "none", accountId |-> accountId]
Subscription(number, products) == [number |-> number, products |-> products]

Resources == {"customers", "payment-methods", "subscriptions", "subscriptionDetail"}
ResourceOf(k) == k[1]

ServerInit ==
  [r \in Resources |->
     CASE r = "customers" -> <<Customer("c1", "Ann")>>
       [] r = "payment-methods" ->
            <<PaymentMethod("pm1", TRUE), PaymentMethod("pm2", FALSE)>>
       [] r = "subscriptions" -> <<Subscription("s1", "prodA")>>
       [] r = "subscriptionDetail" -> <<Subscription("s1", "prodA")>>]

\* The body of a successful GET of query key k when the backend holds srv.
QueryFn(k, srv) == Page(srv[ResourceOf(k)], Len(srv[ResourceOf(k)]))

\* Sequence helpers standing for Array.prototype.map / filter.
RECURSIVE FilterSeq(_, _)
FilterSeq(seq, drop) ==
  IF seq = << >> THEN << >>
  ELSE IF Head(seq).id = drop THEN FilterSeq(Tail(seq), drop)
       ELSE <<Head(seq)>> \o FilterSeq(Tail(seq), drop)

(***************************************************************************)
(* The query client                                                        *)
(***************************************************************************)
\* queryClient.setQueryData(key, data): undefined data is ignored.
setQueryData(c, k, data) ==
  IF data = Undefined THEN c ELSE [c EXCEPT ![k] = data]

\* A snapshot that does not hold what the cache held when it was taken.
Snapshot_notRead(c, ks) == [k \in ks |-> [stale |-> TRUE]]
\* The context a hook keeps: the keys it read and the data found there.
Snapshot(c, ks) == [k \in ks |-> c[k]]

\* for (const [key, value] of prev) setQueryData(key, value), and the single
\* key form  if (context?.previous) setQueryData(key, context.previous).
Restore(c, ctx) ==
  [k \in Keys |-> IF k \in DOMAIN ctx /\ ctx[k] # Undefined THEN ctx[k] ELSE c[k]]

(***************************************************************************)
(* The mutation hooks.  X_onMutate(m, v, c) is the part of onMutate after  *)
(* the awaited cancelQueries: from the cache c it gives the patched cache, *)
(* the context it returns and the keys it wrote.  X_onError(ctx, c) is the *)
(* cache after onError.  m numbers the mutation, v are its variables.      *)
(***************************************************************************)
\* Placeholder identifiers: 'optimistic-' + Date.now() / Math.random().
OptimisticIds == <<"optimistic-1", "optimistic-2", "optimistic-3", "optimistic-4">>

Written(ctx) == {k \in DOMAIN ctx : ctx[k] # Undefined}

\* {...a, ...b}
Spread(a, b) ==
  [f \in DOMAIN a \cup DOMAIN b |-> IF f \in DOMAIN b THEN b[f] ELSE a[f]]

\* useCreateCustomer
useCreateCustomer_onMutate(m, v, c) ==
  LET previous == c[KeyCustomers]
      optimistic ==
        [accountNumber |-> OptimisticIds[v.now],
         firstName |-> v.newCustomer.personalInfo.firstName,
         lastName |-> v.newCustomer.personalInfo.lastName,
         email |-> v.newCustomer.contactInfo.email,
         currency |-> v.newCustomer.currency,
         phoneNumber |-> v.newCustomer.contactInfo.phone,
         addresses |-> v.newCustomer.addresses,
         additionalEmails |-> "none",
         accountId |-> OptimisticIds[v.now]]
  IN [cache |-> IF previous # Undefined
                  THEN setQueryData(c, KeyCustomers,
                         [previous EXCEPT !.entries = <<optimistic>> \o @,
                                          !.total = @ + 1])
                  ELSE c,
      ctx |-> Snapshot(c, {KeyCustomers}),
      patched |-> Written(Snapshot(c, {KeyCustomers}))]
useCreateCustomer_onError(ctx, c) == Restore(c, ctx)

\* A patch that rewrites every entry, whatever its accountId.
useUpdateCustomer_onMutate_everyEntry(m, v, c) ==
  LET previous == c[KeyCustomers]
      upd(cu) == [cu EXCEPT !.firstName = v.updatedCustomer.personalInfo.firstName,
                            !.lastName = v.updatedCustomer.personalInfo.lastName,
                            !.email = v.updatedCustomer.contactInfo.email,
                            !.phoneNumber = v.updatedCustomer.contactInfo.phoneNumber,
                            !.addresses = v.updatedCustomer.addresses,
                            !.additionalEmails = v.updatedCustomer.additionalEmailAddresses]
  IN [cache |-> IF previous # Undefined
                  THEN setQueryData(c, KeyCustomers,
                         [previous EXCEPT !.entries =
                            [i \in 1..Len(previous.entries) |-> upd(previous.entries[i])]])
                  ELSE c,
      ctx |-> Snapshot(c, {KeyCustomers}),
      patched |-> Written(Snapshot(c, {KeyCustomers}))]
\* useUpdateCustomer(accountId)
useUpdateCustomer_onMutate(m, v, c) ==
  LET previous == c[KeyCustomers]
      upd(cu) ==
        IF cu.accountId = v.accountId
          THEN [cu EXCEPT !.firstName = v.updatedCustomer.personalInfo.firstName,
                          !.lastName = v.updatedCustomer.personalInfo.lastName,
                          !.email = v.updatedCustomer.contactInfo.email,
                          !.phoneNumber = v.updatedCustomer.contactInfo.phoneNumber,
                          !.addresses = v.updatedCustomer.addresses,
                          !.additionalEmails = v.updatedCustomer.additionalEmailAddresses]
          ELSE cu
  IN [cache |-> IF previous # Undefined
                  THEN setQueryData(c, KeyCustomers,
                         [previous EXCEPT !.entries =
                            [i \in 1..Len(previous.entries) |-> upd(previous.entries[i])]])
                  ELSE c,
      ctx |-> Snapshot(c, {KeyCustomers}),
      patched |-> Written(Snapshot(c, {KeyCustomers}))]
useUpdateCustomer_onError(ctx, c) == Restore(c, ctx)

\* useCreatePaymentMethod: getQueriesData / setQueriesData over the prefix
useCreatePaymentMethod_onMutate(m, v, c) ==
  LET ks == Matching(KeyPaymentMethods)
      optimistic ==
        [id |-> OptimisticIds[m], isDefault |-> FALSE,
         paymentMethodType |-> v.newMethod.type, creditCardData |-> "null"]
      updater(old) ==
        IF old = Undefined THEN old
        ELSE [old EXCEPT !.entries = <<optimistic>> \o @]
  IN [cache |-> [k \in Keys |->
                   IF k \in ks THEN setQueryData(c, k, updater(c[k]))[k] ELSE c[k]],
      ctx |-> Snapshot(c, ks),
      patched |-> Written(Snapshot(c, ks))]
useCreatePaymentMethod_onError(ctx, c) == Restore(c, ctx)

\* useDeletePaymentMethod
useDeletePaymentMethod_onMutate(m, v, c) ==
  LET ks == Matching(KeyPaymentMethods)
      updater(old) ==
        IF old = Undefined THEN old
        ELSE [old EXCEPT !.entries = FilterSeq(@, v.deleted.paymentMethodId)]
  IN [cache |-> [k \in Keys |->
                   IF k \in ks THEN setQueryData(c, k, updater(c[k]))[k] ELSE c[k]],
      ctx |-> Snapshot(c, ks),
      patched |-> Written(Snapshot(c, ks))]
useDeletePaymentMethod_onError(ctx, c) == Restore(c, ctx)

\* useRecurringPaymentMethod: the exact key ['payment-methods']
useRecurringPaymentMethod_onMutate(m, v, c) ==
  LET previous == c[KeyPaymentMethods]
      updater(old) ==
        IF old = Undefined THEN old
        ELSE [old EXCEPT !.entries =
                [i \in 1..Len(old.entries) |->
                   IF old.entries[i].id = v.variables.paymentMethodId
                     THEN [old.entries[i] EXCEPT !.isDefault = TRUE]
                     ELSE [old.entries[i] EXCEPT !.isDefault = FALSE]]]
  IN [cache |-> setQueryData(c, KeyPaymentMethods, updater(previous)),
      ctx |-> Snapshot(c, {KeyPaymentMethods}),
      patched |-> Written(Snapshot(c, {KeyPaymentMethods}))]
useRecurringPaymentMethod_onError(ctx, c) == Restore(c, ctx)

\* useCreateSubscription: the exact key ['subscriptions', {}]
useCreateSubscription_onMutate(m, v, c) ==
  LET prev == c[KeySubscriptions]
  IN [cache |-> IF prev # Undefined
                  THEN setQueryData(c, KeySubscriptions,
                         [prev EXCEPT !.entries = <<v.newSub>> \o @,
                                      !.total = @ + 1])
                  ELSE c,
      ctx |-> Snapshot(c, {KeySubscriptions}),
      patched |-> Written(Snapshot(c, {KeySubscriptions}))]
useCreateSubscription_onError(ctx, c) == Restore(c, ctx)

\* useUpdateSubscriptionDetail(subscriptionNumber)
useUpdateSubscriptionDetail_onMutate(m, v, c) ==
  LET key == <<"subscriptionDetail", v.subscriptionNumber>>
      prev == c[key]
  IN [cache |-> IF prev # Undefined
                  THEN setQueryData(c, key,
                         [prev EXCEPT !.entries =
                            [i \in 1..Len(prev.entries) |->
                               IF prev.entries[i].number = v.subscriptionNumber
                                 THEN Spread(prev.entries[i], v.data)
                                 ELSE prev.entries[i]]])
                  ELSE c,
      ctx |-> Snapshot(c, {key}),
      patched |-> Written(Snapshot(c, {key}))]
useUpdateSubscriptionDetail_onError(ctx, c) == Restore(c, ctx)

\* usePutPaymentTransaction: the updater also writes when nothing is cached
usePutPaymentTransaction_onMutate(m, v, c) ==
  LET key == <<"payment-transaction", v.transactionId>>
      old == c[key]
      patch == [isPaymentSuccess |-> (v.data.paymentResult = "success")]
  IN [cache |-> setQueryData(c, key,
                  IF old = Undefined THEN patch ELSE Spread(old, patch)),
      ctx |-> Snapshot(c, {key}),
      patched |-> {key}]
usePutPaymentTransaction_onError(ctx, c) == Restore(c, ctx)

\* useAuthorizeClient(options): the updater also writes when nothing is cached,
\* and onError only hands the error to options.onError.
useAuthorizeClient_onMutate(m, v, c) ==
  LET old == c[KeyAuthorizeClient]
  IN [cache |-> setQueryData(c, KeyAuthorizeClient,
                  IF old = Undefined THEN v.data ELSE Spread(old, v.data)),
      ctx |-> Snapshot(c, {KeyAuthorizeClient}),
      patched |-> {KeyAuthorizeClient}]
useAuthorizeClient_onError(ctx, c) == c

(***************************************************************************)
(* Dispatch on the hook of a mutation                                      *)
(***************************************************************************)
Hooks ==
  { "useCreateCustomer", "useUpdateCustomer", "useCreatePaymentMethod",
    "useDeletePaymentMethod", "useRecurringPaymentMethod",
    "useCreateSubscription", "useUpdateSubscriptionDetail",
    "usePutPaymentTransaction", "useAuthorizeClient" }

\* The handlers a caller can hand to a hook in its options.
Handlers == {"onError", "onSettled"}

\* The variables callers pass to mutate(), and the hook parameters.
NewCustomer ==
  [currency |-> "USD", personalInfo |-> [firstName |-> "Bob", lastName |-> "Ray"],
   contactInfo |-> [email |-> "b@x", phone |-> "2"], addresses |-> "addr2"]
UpdatedCustomer ==
  [personalInfo |-> [firstName |-> "Bob", lastName |-> "Ray"],
   contactInfo |-> [email |-> "b@x", phoneNumber |-> "2"],
   addresses |-> "addr2", additionalEmailAddresses |-> "b2@x"]
PaymentMethodIds == {"pm1", "pm2"}

MutationInputs ==
  {[hook |-> "useCreateCustomer", v |-> [newCustomer |-> NewCustomer, now |-> t]] :
      t \in {1, 2}} \cup
  {[hook |-> "useUpdateCustomer",
    v |-> [accountId |-> "c1", updatedCustomer |-> UpdatedCustomer]]} \cup
  {[hook |-> "useCreatePaymentMethod", v |-> [newMethod |-> [type |-> "card"]]]} \cup
  {[hook |-> "useDeletePaymentMethod", v |-> [deleted |-> [paymentMethodId |-> p]]] :
      p \in PaymentMethodIds} \cup
  {[hook |-> "useRecurringPaymentMethod",
    v |-> [variables |-> [paymentMethodId |-> p], options |-> {"onError"}]] :
      p \in PaymentMethodIds} \cup
  {[hook |-> "useCreateSubscription", v |-> [newSub |-> [products |-> "prodB"]]]} \cup
  {[hook |-> "useUpdateSubscriptionDetail",
    v |-> [subscriptionNumber |-> "s1", data |-> [products |-> "prodC"]]]} \cup
  {[hook |-> "usePutPaymentTransaction",
    v |-> [transactionId |-> "t1", data |-> [paymentResult |-> r], options |-> o]] :
      r \in {"success", "refused"}, o \in {{}} \cup {{h} : h \in Handlers}} \cup
  {[hook |-> "useAuthorizeClient",
    v |-> [data |-> [redirectUri |-> "r1"], options |-> {"onError"}]]}

\* The filter of the cancelQueries call that opens onMutate.
CancelFilter(hook, v) ==
  CASE hook \in {"useCreateCustomer", "useUpdateCustomer"} -> <<"customers">>
    [] hook \in {"useCreatePaymentMethod", "useDeletePaymentMethod",
                 "useRecurringPaymentMethod"} -> <<"payment-methods">>
    [] hook = "useCreateSubscription" -> <<"subscriptions">>
    [] hook = "useUpdateSubscriptionDetail" ->
         <<"subscriptionDetail", v.subscriptionNumber>>
    [] hook = "usePutPaymentTransaction" ->
         <<"payment-transaction", v.transactionId>>
    [] hook = "useAuthorizeClient" -> <<"authorizeClient">>

HookOnMutate(hook, m, v, c) ==
  CASE hook = "useCreateCustomer" -> useCreateCustomer_onMutate(m, v, c)
    [] hook = "useUpdateCustomer" -> useUpdateCustomer_onMutate(m, v, c)
    [] hook = "useCreatePaymentMethod" -> useCreatePaymentMethod_onMutate(m, v, c)
    [] hook = "useDeletePaymentMethod" -> useDeletePaymentMethod_onMutate(m, v, c)
    [] hook = "useRecurringPaymentMethod" -> useRecurringPaymentMethod_onMutate(m, v, c)
    [] hook = "useCreateSubscription" -> useCreateSubscription_onMutate(m, v, c)
    [] hook = "useUpdateSubscriptionDetail" ->
         useUpdateSubscriptionDetail_onMutate(m, v, c)
    [] hook = "usePutPaymentTransaction" -> usePutPaymentTransaction_onMutate(m, v, c)
    [] hook = "useAuthorizeClient" -> useAuthorizeClient_onMutate(m, v, c)

HookOnError(hook, ctx, c) ==
  CASE hook = "useCreateCustomer" -> useCreateCustomer_onError(ctx, c)
    [] hook = "useUpdateCustomer" -> useUpdateCustomer_onError(ctx, c)
    [] hook = "useCreatePaymentMethod" -> useCreatePaymentMethod_onError(ctx, c)
    [] hook = "useDeletePaymentMethod" -> useDeletePaymentMethod_onError(ctx, c)
    [] hook = "useRecurringPaymentMethod" -> useRecurringPaymentMethod_onError(ctx, c)
    [] hook = "useCreateSubscription" -> useCreateSubscription_onError(ctx, c)
    [] hook = "useUpdateSubscriptionDetail" -> useUpdateSubscriptionDetail_onError(ctx, c)
    [] hook = "usePutPaymentTransaction" -> usePutPaymentTransaction_onError(ctx, c)
    [] hook = "useAuthorizeClient" -> useAuthorizeClient_onError(ctx, c)

\* usePutPaymentTransaction spreads the caller's options after its own handlers:
\* a handler in the options replaces the hook's.
Replaced(hook, v, handler) ==
  hook = "usePutPaymentTransaction" /\ handler \in v.options

\* The cache after the onError that runs.
OnErrorCache(hook, v, ctx, c) ==
  IF Replaced(hook, v, "onError") THEN c ELSE HookOnError(hook, ctx, c)

\* Whether a caller-supplied error callback runs on failure, and the cache it
\* finds.  useRecurringPaymentMethod calls options.onError after its restore,
\* useAuthorizeClient calls it without one, usePutPaymentTransaction runs the
\* caller's onError in place of its own; the other hooks call none.
CallsCallerOnError(hook, v) ==
  /\ hook \in {"useRecurringPaymentMethod", "useAuthorizeClient",
               "usePutPaymentTransaction"}
  /\ "onError" \in v.options
CallerOnErrorSees(hook, v, ctx, c) ==
  IF hook = "useRecurringPaymentMethod" THEN Restore(c, ctx) ELSE c

\* The filters the hook's onSuccess hands to invalidateQueries.
SuccessInvalidates(hook, v) ==
  CASE hook = "useRecurringPaymentMethod" ->
         {<<"payment-methods">>, <<"default-payment-method">>}
    [] hook = "useAuthorizeClient" -> {<<"authorizeClient">>}
    [] OTHER -> {}

\* The filters the hook's onSettled hands to invalidateQueries.
SettledInvalidates(hook, v) ==
  CASE hook \in {"useCreateCustomer", "useUpdateCustomer"} -> {<<"customers">>}
    [] hook \in {"useCreatePaymentMethod", "useDeletePaymentMethod"} ->
         {<<"payment-methods">>}
    [] hook = "useRecurringPaymentMethod" -> {}
    [] hook = "useCreateSubscription" -> {<<"subscriptions">>}
    [] hook = "useUpdateSubscriptionDetail" ->
         {<<"subscriptionDetail", v.subscriptionNumber>>, <<"subscriptions">>}
    [] hook = "usePutPaymentTransaction" ->
         IF Replaced(hook, v, "onSettled") THEN {}
         ELSE {<<"payment-transaction", v.transactionId>>, <<"payment-transactions">>}
    [] hook = "useAuthorizeClient" -> {<<"authorizeClient">>}

\* What the backend holds after the mutation's request succeeded.
NewIds == <<"new-1", "new-2", "new-3", "new-4">>
ServerApply(hook, m, v, srv) ==
  CASE hook = "useCreateCustomer" ->
         [srv EXCEPT !["customers"] =
            Append(@, Customer(NewIds[m], v.newCustomer.personalInfo.firstName))]
    [] hook = "useUpdateCustomer" ->
         [srv EXCEPT !["customers"] =
            [i \in 1..Len(@) |->
               IF @[i].accountId = v.accountId
                 THEN [@[i] EXCEPT !.firstName = v.updatedCustomer.personalInfo.firstName]
                 ELSE @[i]]]
    [] hook = "useCreatePaymentMethod" ->
         [srv EXCEPT !["payment-methods"] = Append(@, PaymentMethod(NewIds[m], FALSE))]
    [] hook = "useDeletePaymentMethod" ->
         [srv EXCEPT !["payment-methods"] = FilterSeq(@, v.deleted.paymentMethodId)]
    [] hook = "useRecurringPaymentMethod" ->
         LET pms == srv["payment-methods"] IN
         [srv EXCEPT !["payment-methods"] =
            [i \in 1..Len(pms) |->
               [pms[i] EXCEPT !.isDefault = (pms[i].id = v.variables.paymentMethodId)]]]
    [] hook = "useCreateSubscription" ->
         [srv EXCEPT !["subscriptions"] =
            Append(@, Subscription(NewIds[m], v.newSub.products))]
    [] hook = "useUpdateSubscriptionDetail" ->
         [srv EXCEPT !["subscriptionDetail"] =
            [i \in 1..Len(@) |->
               IF @[i].number = v.subscriptionNumber
                 THEN Spread(@[i], v.data) ELSE @[i]]]
    [] OTHER -> srv

(***************************************************************************)
(* State of the cache-synchronization layer                                *)
(***************************************************************************)
\* A fetch: its status, the response on its way, and the mutations whose
\* onMutate had begun when it started.
NoFetch == [status |-> "idle", data |-> Undefined, since |-> {}]
EmptyCtx == [k \in {} |-> Undefined]
IdleMutation ==
  [hook |-> "none", v |-> [none |-> TRUE], pc |-> "idle", outcome |-> "none",
   ctx |-> EmptyCtx,      \* the context onMutate returned
   patched |-> {},        \* the keys onMutate wrote
   before |-> EmptyCtx,   \* their data right before onMutate wrote them
   seen |-> EmptyCtx,     \* the overlay of the keys read, when they were read
   marks |-> {},          \* the filters its handlers gave to invalidateQueries
   cancelled |-> {},      \* the keys whose fetch in flight its cancelQueries dropped
   reported |-> [called |-> FALSE, restored |-> FALSE]]
                          \* the caller's error callback: whether it ran, and
                          \* whether the keys onMutate wrote held their data
                          \* from before onMutate when it ran

CacheInit ==
  /\ mounted \in QueryHookKeys
  /\ cache = [k \in Keys |-> Undefined]
  /\ server = ServerInit
  /\ fetch = [k \in Keys |->
                IF k = mounted
                  THEN [status |-> "fetching", data |-> QueryFn(k, ServerInit),
                        since |-> {}]
                  ELSE NoFetch]
  /\ invalidated = [k \in Keys |-> FALSE]
  /\ mut = [m \in Muts |-> IdleMutation]
  /\ overlay = [k \in Keys |-> {}]

\* A query exists in the query cache once it is observed or holds data.
QueryExists(k) == k = mounted \/ cache[k] # Undefined

\* The mutations whose onMutate has begun.
Begun == {m \in Muts : mut[m].pc # "idle"}

\* A cancelQueries that leaves the fetches in flight alone.
cancelQueries_keepsInFlight(filter, f) == f
\* queryClient.cancelQueries(filter): the fetches in flight for the matching
\* queries are dropped and their responses discarded.
cancelQueries(filter, f) ==
  [k \in Keys |-> IF Matches(filter, k) THEN NoFetch ELSE f[k]]

\* queryClient.invalidateQueries(filter), for each filter of a set: the matching
\* queries are marked and the observed ones are fetched again.
invalidateFetch(filters, f, srv) ==
  [k \in Keys |->
     IF k = mounted /\ \E flt \in filters : Matches(flt, k)
       THEN [status |-> "fetching", data |-> QueryFn(k, srv), since |-> Begun]
       ELSE f[k]]
invalidateMarks(filters, inv) ==
  [k \in Keys |->
     IF QueryExists(k) /\ \E flt \in filters : Matches(flt, k) THEN TRUE ELSE inv[k]]

\* mutate(variables) is called: onMutate starts and awaits cancelQueries.
Mutate(m, in) ==
  /\ mut[m].pc = "idle"
  /\ (m > 1 => mut[m - 1].pc # "idle")
  /\ mut' = [mut EXCEPT ![m] =
               [IdleMutation EXCEPT !.hook = in.hook, !.v = in.v, !.pc = "mutating",
                  !.cancelled = {k \in Matching(CancelFilter(in.hook, in.v)) :
                                   fetch[k].status = "fetching"}]]
  /\ fetch' = cancelQueries(CancelFilter(in.hook, in.v), fetch)
  /\ UNCHANGED <<cache, invalidated, mounted, server, overlay>>
  /\ UNCHANGED <<transportVars, view, reqs, checkout>>

\* onMutate resumes: snapshot, optimistic patch, and the request goes out.
OnMutate(m) ==
  /\ mut[m].pc = "mutating"
  /\ LET r == HookOnMutate(mut[m].hook, m, mut[m].v, cache) IN
       /\ cache' = r.cache
       /\ mut' = [mut EXCEPT ![m] =
                    [@ EXCEPT !.pc = "pending", !.ctx = r.ctx, !.patched = r.patched,
                              !.before = [k \in r.patched |-> cache[k]],
                              !.seen = [k \in DOMAIN r.ctx |-> overlay[k]]]]
       /\ overlay' = [k \in Keys |->
                        IF k \in r.patched THEN overlay[k] \cup {m} ELSE overlay[k]]
       /\ invalidated' = [k \in Keys |->
                            IF k \in r.patched THEN FALSE ELSE invalidated[k]]
  /\ UNCHANGED <<fetch, mounted, server>>
  /\ UNCHANGED <<transportVars, view, reqs, checkout>>

\* The request succeeded: onSuccess runs.
Succeed(m) ==
  /\ mut[m].pc = "pending"
  /\ server' = ServerApply(mut[m].hook, m, mut[m].v, server)
  /\ LET flts == SuccessInvalidates(mut[m].hook, mut[m].v) IN
       /\ fetch' = invalidateFetch(flts, fetch, server')
       /\ invalidated' = invalidateMarks(flts, invalidated)
  /\ mut' = [mut EXCEPT ![m] =
               [@ EXCEPT !.pc = "settling", !.outcome = "success",
                         !.marks = @ \cup SuccessInvalidates(mut[m].hook, mut[m].v)]]
  /\ UNCHANGED <<cache, mounted, overlay>>
  /\ UNCHANGED <<transportVars, view, reqs, checkout>>

\* The request failed: onError runs.
Fail(m) ==
  /\ mut[m].pc = "pending"
  /\ cache' = OnErrorCache(mut[m].hook, mut[m].v, mut[m].ctx, cache)
  /\ LET blank == [k \in Keys |-> Undefined]
         rewritten == {k \in Keys :
                         OnErrorCache(mut[m].hook, mut[m].v, mut[m].ctx, blank)[k]
                           # Undefined} IN
       /\ overlay' = [k \in Keys |->
                        IF k \in rewritten THEN mut[m].seen[k] ELSE overlay[k]]
       /\ invalidated' = [k \in Keys |->
                            IF k \in rewritten THEN FALSE ELSE invalidated[k]]
  /\ LET sees == CallerOnErrorSees(mut[m].hook, mut[m].v, mut[m].ctx, cache) IN
       mut' = [mut EXCEPT ![m] =
                 [@ EXCEPT !.pc = "settling", !.outcome = "error",
                    !.reported =
                      [called |-> CallsCallerOnError(mut[m].hook, mut[m].v),
                       restored |-> \A k \in mut[m].patched :
                                      sees[k] = mut[m].before[k]]]]
  /\ UNCHANGED <<fetch, mounted, server>>
  /\ UNCHANGED <<transportVars, view, reqs, checkout>>

\* onSettled runs.
Settled(m) ==
  /\ mut[m].pc = "settling"
  /\ LET flts == SettledInvalidates(mut[m].hook, mut[m].v) IN
       /\ fetch' = invalidateFetch(flts, fetch, server)
       /\ invalidated' = invalidateMarks(flts, invalidated)
  /\ mut' = [mut EXCEPT ![m] =
               [@ EXCEPT !.pc = "done",
                         !.marks = @ \cup SettledInvalidates(mut[m].hook, mut[m].v)]]
  /\ UNCHANGED <<cache, mounted, server, overlay>>
  /\ UNCHANGED <<transportVars, view, reqs, checkout>>

\* The response of the fetch in flight for key k arrives and is cached.
FetchArrive(k) ==
  /\ fetch[k].status = "fetching"
  /\ cache' = [cache EXCEPT ![k] = fetch[k].data]
  /\ fetch' = [fetch EXCEPT ![k] = NoFetch]
  /\ invalidated' = [invalidated EXCEPT ![k] = FALSE]
  /\ overlay' = [overlay EXCEPT ![k] = {}]
  /\ UNCHANGED <<mounted, server, mut>>
  /\ UNCHANGED <<transportVars, view, reqs, checkout>>

\* The observed query is fetched again (refetch(), window focus, reconnect).
Refetch(k) ==
  /\ k = mounted
  /\ fetch[k].status = "idle"
  /\ fetch' = [fetch EXCEPT ![k] = [status |-> "fetching", data |-> QueryFn(k, server),
                                     since |-> Begun]]
  /\ UNCHANGED <<cache, invalidated, mounted, server, mut, overlay>>
  /\ UNCHANGED <<transportVars, view, reqs, checkout>>

(***************************************************************************)
(* The patch of useUpdateCustomer over cached customer lists                *)
(***************************************************************************)
\* Bound: entries of a cached customer list.
MaxEntries == 2

\* The lists that can be cached under ['customers'] when the patch runs.
CustomerLists ==
  LET cs == {Customer("c1", "Ann"), Customer("c2", "Cy")}
      seqs == UNION {[1..n -> cs] : n \in 0..MaxEntries}
  IN UNION {{Page(es, t) : t \in {Len(es), 7}} : es \in seqs}

\* useUpdateCustomer(accountId).mutate(updatedCustomer), for an accountId that
\* is in the lists and one that is not.
UpdateInputs ==
  {[hook |-> "useUpdateCustomer",
    v |-> [accountId |-> a, updatedCustomer |-> UpdatedCustomer]] : a \in {"c1", "c9"}}

PatchInit ==
  /\ mounted = KeyCustomersPage
  /\ cache \in {[k \in Keys |-> IF k = KeyCustomers THEN l ELSE Undefined] :
                  l \in CustomerLists}
  /\ server = ServerInit
  /\ fetch = [k \in Keys |-> NoFetch]
  /\ invalidated = [k \in Keys |-> FALSE]
  /\ mut = [m \in Muts |-> IdleMutation]
  /\ overlay = [k \in Keys |-> {}]

PatchNext ==
  \/ \E m \in Muts, in \in UpdateInputs : Mutate(m, in)
  \/ \E m \in Muts : OnMutate(m)

CacheNext ==
  \/ \E m \in Muts, in \in MutationInputs : Mutate(m, in)
  \/ \E m \in Muts : OnMutate(m)
  \/ \E m \in Muts : Succeed(m)
  \/ \E m \in Muts : Fail(m)
  \/ \E m \in Muts : Settled(m)
  \/ \E k \in Keys : FetchArrive(k)
  \/ \E k \in Keys : Refetch(k)

(***************************************************************************)
(* PART 3 - PAGINATED QUERY HOOKS                                          *)
(***************************************************************************)

\* Bound: pages a component asks for.
MaxPage == 3
Pages == 1..MaxPage

PagedHooks ==
  { "useCustomers", "useInvoices", "usePaymentMethods", "useCountries",
    "useSubscriptions", "useProducts", "useProductSearch", "useSubscriptionDetail" }

\* The options object a caller can pass as the hook's second argument;
\* only useCustomers and useInvoices take one.
NoOptions == [f \in {} |-> FALSE]
CallerOptions(hook) ==
  IF hook \in {"useCustomers", "useInvoices"}
    THEN {NoOptions, [keepPreviousData |-> TRUE], [keepPreviousData |-> FALSE]}
    ELSE {NoOptions}

\* The options the hook hands to useQuery.
QueryOptions(hook, options) ==
  CASE hook \in {"useCustomers", "useInvoices"} ->
         Spread([keepPreviousData |-> TRUE], options)
    [] hook = "useSubscriptionDetail" -> [enabled |-> TRUE]
    [] OTHER -> [keepPreviousData |-> TRUE]

\* useQuery's keepPreviousData: absent means false.
keepPreviousData(o) == "keepPreviousData" \in DOMAIN o /\ o.keepPreviousData

\* No paginated hook is rendered.  data is the page whose response the hook
\* returns, 0 when it returns undefined.
NoView ==
  [hook |-> "none", options |-> NoOptions, params |-> 0, loaded |-> {},
   inflight |-> {}, data |-> 0,
   fromCached |-> FALSE]   \* the page left by the last change of params was cached

PagesInit == view = NoView

\* A component renders the hook with page 1: the query starts loading.
Mount(hook, options) ==
  /\ view.hook = "none"
  /\ options \in CallerOptions(hook)
  /\ view' = [NoView EXCEPT !.hook = hook, !.options = options, !.params = 1,
                            !.inflight = {1}]
  /\ UNCHANGED <<transportVars, cacheVars, reqs, checkout>>

\* The component renders with other params: the observer moves to the query
\* of the new key.  A cached page is returned at once; for a page not cached
\* the fetch starts and the hook returns the previous data under
\* keepPreviousData, undefined otherwise.
SetParams(p) ==
  /\ view.hook # "none"
  /\ p # view.params
  /\ view' = [view EXCEPT
                !.params = p,
                !.fromCached = view.params \in view.loaded,
                !.inflight = IF p \in view.loaded THEN @ ELSE @ \cup {p},
                !.data = IF p \in view.loaded THEN p
                         ELSE IF keepPreviousData(QueryOptions(view.hook, view.options))
                                THEN @ ELSE 0]
  /\ UNCHANGED <<transportVars, cacheVars, reqs, checkout>>

\* The response for page p arrives and is cached under its key.
PageArrive(p) ==
  /\ p \in view.inflight
  /\ view' = [view EXCEPT !.inflight = @ \ {p}, !.loaded = @ \cup {p},
                          !.data = IF p = view.params THEN p ELSE @]
  /\ UNCHANGED <<transportVars, cacheVars, reqs, checkout>>

PagesNext ==
  \/ \E hook \in PagedHooks : \E options \in CallerOptions(hook) : Mount(hook, options)
  \/ \E p \in Pages : SetParams(p)
  \/ \E p \in Pages : PageArrive(p)

(***************************************************************************)
(* PART 4 - postIdentityToken CALLS SIDE BY SIDE                           *)
(***************************************************************************)

\* Bound: postIdentityToken calls in progress at the same time.
MaxConcurrent == 2
Reqs == 1..MaxConcurrent

IdleReq ==
  [pc |-> "idle", retries |-> 0,
   hdr |-> NoToken,     \* token in the Authorization header of its request
   last |-> -1,         \* status of the response it received last
   newer |-> NoToken]   \* token another call stored while its request was out

ReqsInit == reqs = [i \in Reqs |-> IdleReq]

\* postIdentityToken(data) is called: api.post goes through the request
\* interceptor.
IdentityCall(i) ==
  /\ reqs[i].pc \in {"idle", "done"}
  /\ reqs' = [reqs EXCEPT ![i] =
                [IdleReq EXCEPT !.pc = "inflight",
                                !.hdr = RequestInterceptor("postIdentityToken")]]
  /\ UNCHANGED <<transportVars, cacheVars, view, checkout>>

\* A 2xx response arrives for call i.
IdentityOk(i, r) ==
  /\ reqs[i].pc = "inflight"
  /\ r \in OkResponses("postIdentityToken")
  /\ token' = IdentitySuccess("postIdentityToken", r)
  /\ reqs' = [j \in Reqs |->
                IF j = i THEN [reqs[j] EXCEPT !.pc = "done", !.last = r.status]
                ELSE IF reqs[j].pc = "inflight" /\ r.tok # NoToken
                       THEN [reqs[j] EXCEPT !.newer = r.tok]
                       ELSE reqs[j]]
  /\ UNCHANGED <<call, setCalls, authed, cacheVars, view, checkout>>

\* An error response, a network error or a timeout arrives for call i: the
\* response interceptor runs, then the catch block, which calls
\* postIdentityToken again or throws.
IdentityError(i, r) ==
  /\ reqs[i].pc = "inflight"
  /\ r \in ErrorResponses
  /\ token' = ResponseInterceptor("identity", r)
  /\ LET d == identity_catch(reqs[i].retries, AxiosErr(r)) IN
       reqs' = [reqs EXCEPT ![i] =
                  IF d.act = "next"
                    THEN [@ EXCEPT !.retries = @ + 1, !.last = r.status,
                                   !.hdr = token'["identity"], !.newer = NoToken]
                    ELSE [@ EXCEPT !.pc = "done", !.last = r.status]]
  /\ UNCHANGED <<call, setCalls, authed, cacheVars, view, checkout>>

IdentityNext ==
  \/ \E i \in Reqs : IdentityCall(i)
  \/ \E i \in Reqs : \E t \in Tokens \cup {NoToken} :
        IdentityOk(i, [status |-> 200, body |-> NoBody, tok |-> t])
  \/ \E i \in Reqs : \E r \in ErrorResponses : IdentityError(i, r)

(***************************************************************************)
(* PART 5 - CheckoutForm.handleSubmit                                      *)
(***************************************************************************)

\* Bound: submissions of the form in a run.
MaxSubmits == 3

\* The awaited creations, in the order of the source text.
Creations == <<"customer", "paymentMethod", "subscription">>

\* The onSuccess / onError props: absent, or a callback; a callback may throw.
CheckoutProps ==
  [onSuccess : {"none", "returns", "throws"}, onError : BOOLEAN]

NoCheckout ==
  [pc |-> "unmounted", props |-> [onSuccess |-> "none", onError |-> FALSE],
   submits |-> 0,
   valid |-> TRUE,         \* what validateStep returned
   issued |-> << >>,       \* the creations called by this submission, in order
   succeeded |-> {},       \* the creations whose promise resolved
   failed |-> "none",      \* the creation whose promise rejected
   formError |-> "null",
   onSuccessCalls |-> 0, onErrorCalls |-> 0]

CheckoutInit == checkout = NoCheckout

\* A catch block that goes on with the next creation.
handleSubmit_catch_goesOn(c, err) ==
  IF c.pc = "subscription"
    THEN [c EXCEPT !.pc = "done"]
    ELSE LET next == IF c.pc = "customer" THEN "paymentMethod" ELSE "subscription"
         IN [c EXCEPT !.pc = next, !.issued = Append(@, next)]
\* The catch block of handleSubmit.
handleSubmit_catch(c, err) ==
  [c EXCEPT !.pc = "done",
            !.formError = IF err.detail # "" THEN err.detail ELSE "Checkout failed.",
            !.onErrorCalls = IF c.props.onError THEN @ + 1 ELSE @]
\* What the try block does once the awaited creation resolves with r.
handleSubmit_resolved(c, r) ==
  CASE c.pc = "customer" ->
         [c EXCEPT !.pc = "paymentMethod", !.succeeded = @ \cup {"customer"},
                   !.issued = Append(@, "paymentMethod")]
    [] c.pc = "paymentMethod" ->
         [c EXCEPT !.pc = "subscription", !.succeeded = @ \cup {"paymentMethod"},
                   !.issued = Append(@, "subscription")]
    [] c.pc = "subscription" ->
         LET c1 == [c EXCEPT !.succeeded = @ \cup {"subscription"}] IN
         CASE c.props.onSuccess = "none" -> [c1 EXCEPT !.pc = "done"]
           [] c.props.onSuccess = "returns" ->
                [c1 EXCEPT !.pc = "done", !.onSuccessCalls = @ + 1]
           [] c.props.onSuccess = "throws" ->
                handleSubmit_catch([c1 EXCEPT !.onSuccessCalls = @ + 1],
                                   [detail |-> ""])

\* The form is rendered on its last step with its props.
Render(props) ==
  /\ checkout.pc = "unmounted"
  /\ checkout' = [NoCheckout EXCEPT !.pc = "idle", !.props = props]
  /\ UNCHANGED <<transportVars, cacheVars, view, reqs>>

\* The form is submitted: validateStep, then the first creation is called.
Submit(agreed) ==
  /\ checkout.pc \in {"idle", "done"}
  /\ checkout.submits < MaxSubmits
  /\ LET c == [NoCheckout EXCEPT !.props = checkout.props,
                                 !.submits = checkout.submits + 1]
     IN checkout' =
          IF agreed
            THEN [c EXCEPT !.pc = "customer", !.issued = <<"customer">>]
            ELSE [c EXCEPT !.pc = "done", !.valid = FALSE,
                           !.formError = "You must agree to the terms."]
  /\ UNCHANGED <<transportVars, cacheVars, view, reqs>>

\* The promise of the awaited creation resolves.
CreationResolves(r) ==
  /\ checkout.pc \in {"customer", "paymentMethod", "subscription"}
  /\ checkout' = handleSubmit_resolved(checkout, r)
  /\ UNCHANGED <<transportVars, cacheVars, view, reqs>>

\* The promise of the awaited creation rejects.
CreationRejects(err) ==
  /\ checkout.pc \in {"customer", "paymentMethod", "subscription"}
  /\ checkout' = handleSubmit_catch([checkout EXCEPT !.failed = checkout.pc], err)
  /\ UNCHANGED <<transportVars, cacheVars, view, reqs>>

CheckoutNext ==
  \/ \E props \in CheckoutProps : Render(props)
  \/ \E agreed \in BOOLEAN : Submit(agreed)
  \/ \E id \in {"sub-1", ""} : CreationResolves([id |-> id])
  \/ \E d \in {"declined", ""} : CreationRejects([detail |-> d])

(***************************************************************************)
(* Specifications                                                          *)
(***************************************************************************)
Init == TransportInit /\ CacheInit /\ PagesInit /\ ReqsInit /\ CheckoutInit

TransportNext ==
  \/ \E fn \in Fns : Call(fn)
  \/ Issue
  \/ Exhaust
  \/ \E t \in Tokens \cup {NoToken} :
        RespondOk([status |-> 200, body |-> NoBody, tok |-> t])
  \/ \E r \in ErrorResponses : RespondError(r)
  \/ Timer

\* The transport layer with the exported setters in use.
AuthNext ==
  \/ \E fn \in Fns : Call(fn)
  \/ Issue
  \/ Exhaust
  \/ \E t \in Tokens \cup {NoToken} :
        RespondOk([status |-> 200, body |-> NoBody, tok |-> t])
  \/ \E r \in ErrorResponses : RespondError(r)
  \/ Timer
  \/ \E s \in SetterStores, t \in Tokens : SetToken(s, t)

\* The transport layer, one call at a time; the cache layer is at rest.
InitTransport == Init /\ mounted = KeyCustomersPage
SpecTransport == InitTransport /\ [][TransportNext]_vars

\* The transport layer and callers of the exported setters.
SpecAuth == InitTransport /\ [][AuthNext]_vars

\* The cache-synchronization layer; the transport layer is at rest.
InitCache == Init /\ \A s \in StorageKeys : token[s] = NoToken
SpecCache == InitCache /\ [][CacheNext]_vars

\* The paginated query hooks; the other layers are at rest.
InitPages ==
  Init /\ mounted = KeyCustomersPage /\ \A s \in StorageKeys : token[s] = NoToken
SpecPages == InitPages /\ [][PagesNext]_vars

\* postIdentityToken calls side by side; the other layers are at rest.
SpecIdentity == InitPages /\ [][IdentityNext]_vars

\* The patch of useUpdateCustomer applied to cached customer lists.
InitPatch ==
  /\ TransportInit /\ \A s \in StorageKeys : token[s] = NoToken
  /\ PatchInit /\ PagesInit /\ ReqsInit /\ CheckoutInit
SpecPatch == InitPatch /\ [][PatchNext]_vars

\* CheckoutForm.handleSubmit; the other layers are at rest.
SpecCheckout == InitPages /\ [][CheckoutNext]_vars

(***************************************************************************)
(* PROPERTIES - transport layer                                            *)
(***************************************************************************)
\* The transport functions whose helper looks at the error before retrying.
ConditionalFns ==
  { "postPayment", "putRecurringPaymentMethod", "getInvoices", "getSubscriptions",
    "createSubscription", "createZuoraHppInstance", "postIdentityToken" }

\* The retry ceiling of a transport function: its module's MAX_RETRIES.
MaxRetries(fn) ==
  CASE fn = "postPayment" -> MAX_RETRIES_payment
    [] fn = "putRecurringPaymentMethod" -> MAX_RETRIES_recurring
    [] fn = "getInvoices" -> MAX_RETRIES_invoices
    [] fn \in {"getSubscriptions", "createSubscription"} -> MAX_RETRIES_subscriptions
    [] fn = "createZuoraHppInstance" -> MAX_RETRIES_hpp
    [] fn = "postIdentityToken" -> MAX_RETRIES_identity

\* C5: a conditional-retry transport function with retry ceiling N whose every
\* attempt received a 503 has, once the call is over, issued the request
\* exactly N + 1 times and has failed.
C5_AlwaysUnavailableAttempts ==
  (call.fn \in ConditionalFns /\ call.pc = "done" /\ call.all503)
    => (call.sent = MaxRetries(call.fn) + 1 /\ call.state = "rejected")

\* C6: a conditional-retry transport function whose first attempt received a
\* 400, with or without a problem body, issues the request once and fails:
\* from the moment the 400 is received the call is over, rejected, with one
\* request sent.
C6_BadRequestNotRetried ==
  (call.fn \in ConditionalFns /\ call.firstResp.status = 400)
    => (call.sent = 1 /\ call.pc = "done" /\ call.state = "rejected")

\* C7: the first request issued after postIdentityToken resolved with token t,
\* by any other transport function and with nothing in between, carries
\* Authorization: Bearer t.
C7_IdentityTokenOnNextRequest ==
  [][(authed # NoToken /\ call.fn # "postIdentityToken"
        /\ call.pc = "head" /\ call'.pc = "inflight")
       => call'.hdr = authed]_vars

\* C8: in every module, the step in which a request receives a 401 leaves the
\* module's token cleared, so that the next request has no Authorization
\* header.
C8_UnauthorizedClearsToken ==
  [][(call.pc = "inflight" /\ call'.pc # "inflight" /\ call'.lastResp.status = 401)
       => token'[StoreOf(ModuleOf(call.fn))] = NoToken]_vars

\* C10: when the final failed attempt of a transport function received a
\* response with a JSON body b, the value the call rejects with is b itself,
\* not an error object of the request library around it.
C10_FailureValueIsBody ==
  (call.pc = "done" /\ call.state = "rejected" /\ call.lastResp.body # NoBody)
    => call.val = Plain(call.lastResp.body)

\* The ProblemDetails a transport function is to synthesize when the final
\* failure carried no body: status 500 and a generic title.
IsSynthesized(v) == v.kind = "plain" /\ v.body.status = 500

\* C11: a transport function that fails rejects with a ProblemDetails value,
\* never with the request library's error; when the final failure carried no
\* body (network error, timeout, empty body) that value is a synthesized
\* ProblemDetails with status 500.
C11_FailureIsProblemDetails ==
  (call.pc = "done" /\ call.state = "rejected")
    => /\ call.val.kind = "plain"
       /\ call.lastResp.body = NoBody => IsSynthesized(call.val)

\* C13: the token of a store goes from absent to present, or from one token
\* to another, only in the step in which postIdentityToken resolves.
C13_TokenOnlyFromIdentity ==
  [][\A s \in Stores :
       (token'[s] # token[s] /\ token'[s] # NoToken)
         => (call.fn = "postIdentityToken" /\ call.pc = "inflight"
               /\ call'.state = "resolved")]_vars

\* The POST and PUT transport functions behind an unconditional retry helper.
UnconditionalWriteFns ==
  {"postCustomer", "putCustomer", "postAuthorizeClient", "putPaymentTransaction"}

\* C15: no POST or PUT transport function sends its request again after an
\* attempt that received a 4xx response: while such a response is the latest
\* one received, no request of the call is in flight.
C15_NoResendAfterClientError ==
  (call.fn \in UnconditionalWriteFns /\ call.lastResp.status \in 400..499)
    => call.pc # "inflight"

(***************************************************************************)
(* PROPERTIES - cache-synchronization layer                                *)
(***************************************************************************)
\* onError of mutation m runs in this step.
RollsBack(m) ==
  mut[m].pc = "pending" /\ mut'[m].pc = "settling" /\ mut'[m].outcome = "error"

\* onSuccess or onError of mutation m runs in this step.
Reconciles(m) == mut[m].pc = "pending" /\ mut'[m].pc = "settling"

\* Mutation m has been reconciled: its onSuccess or onError has run.
Reconciled(m) == mut[m].pc \in {"settling", "done"}

\* C1: when the request of an optimistic mutation fails, then after onError
\* every cache entry its onMutate patched holds exactly the value it held
\* right before onMutate ran.
C1_RollbackRestoresSnapshot ==
  [][\A m \in Muts :
       RollsBack(m) => \A k \in mut[m].patched : cache'[k] = mut[m].before[k]]_vars

\* C2: no cache entry ever carries the optimistic patches of two mutations
\* that are both still unreconciled.
C2_OnePendingPatchPerEntry ==
  \A k \in Keys : Cardinality({m \in overlay[k] : mut[m].pc = "pending"}) <= 1

\* C3: a rollback never removes from a cache entry the patch of another
\* mutation that is still pending or was confirmed: the snapshot it restores
\* was taken with that patch applied.
C3_RollbacksComposeLIFO ==
  [][\A m \in Muts :
       RollsBack(m) =>
         \A k \in Keys : \A n \in overlay[k] \ {m} :
           (mut[n].pc = "pending" \/ mut[n].outcome = "success")
             => n \in overlay'[k]]_vars

\* C4: when M1 and M2 were started in that order on the same cache entry (M2
\* patched it on top of M1's patch) and M2 has been reconciled first, the
\* late reconciliation of M1 writes nothing to the cache.
C4_LateReconciliationDiscarded ==
  [][\A m1, m2 \in Muts :
       (/\ m1 < m2
        /\ Reconciled(m2)
        /\ \E k \in mut[m1].patched \cap mut[m2].patched : m1 \in mut[m2].seen[k]
        /\ Reconciles(m1))
         => cache' = cache]_vars

\* C9: right after the optimistic patch of useRecurringPaymentMethod for
\* payment method P, in every cached payment-methods list the entry P has
\* isDefault = true and every other entry has isDefault = false.
C9_SingleDefaultAfterPatch ==
  [][\A m \in Muts :
       (/\ mut[m].hook = "useRecurringPaymentMethod"
        /\ mut[m].pc = "mutating"
        /\ mut'[m].pc = "pending")
         => \A k \in Matching(KeyPaymentMethods) :
              cache'[k] # Undefined =>
                \A i \in 1..Len(cache'[k].entries) :
                  cache'[k].entries[i].isDefault
                    = (cache'[k].entries[i].id = mut[m].v.variables.paymentMethodId)]_vars

\* The resource a mutation hook works on: the head of the key it cancels,
\* snapshots and patches.
AffectedResource(hook, v) == CancelFilter(hook, v)[1]

\* C14: a mutation that has settled, by success or by failure, has handed to
\* invalidateQueries a filter on the resource it affects.
C14_InvalidatesAfterSettle ==
  \A m \in Muts :
    mut[m].pc = "done"
      => \E f \in mut[m].marks : f[1] = AffectedResource(mut[m].hook, mut[m].v)

\* C18: when a useCreateSubscription mutation has settled, it has invalidated
\* the subscriptions list keys and the detail key of a subscription.
C18_CreateSubscriptionInvalidatesDetail ==
  \A m \in Muts :
    (mut[m].hook = "useCreateSubscription" /\ mut[m].pc = "done")
      => /\ <<"subscriptions">> \in mut[m].marks
         /\ \E f \in mut[m].marks : f[1] = "subscriptionDetail"

\* C20: when useCreateCustomer patches while a customers list is cached under
\* the key useCustomers(params) reads, that list then starts with a record
\* carrying a placeholder identifier, followed by the previous entries in
\* their order, and its total is one more.
C20_CreateCustomerPrependsInList ==
  [][\A m \in Muts :
       (/\ mut[m].hook = "useCreateCustomer"
        /\ mut[m].pc = "mutating"
        /\ mut'[m].pc = "pending"
        /\ cache[KeyCustomersPage] # Undefined)
         => LET old == cache[KeyCustomersPage]
                new == cache'[KeyCustomersPage]
            IN /\ Len(new.entries) = Len(old.entries) + 1
               /\ \E i \in 1..Len(OptimisticIds) :
                    new.entries[1].accountId = OptimisticIds[i]
               /\ \A i \in 1..Len(old.entries) : new.entries[i + 1] = old.entries[i]
               /\ new.total = old.total + 1]_vars

\* C16: while the optimistic patch of a pending mutation is in a cache entry,
\* no fetch of that entry which started before the mutation's onMutate began
\* is still on its way: its response cannot arrive and overwrite the patch.
C16_StaleFetchDiscarded ==
  \A k \in Keys : \A m \in overlay[k] :
    (mut[m].pc = "pending" /\ fetch[k].status = "fetching") => m \in fetch[k].since

\* A fetch was in flight when onMutate began, was cancelled, and the
\* mutation is pending with its patch in that entry.
C16_Witness ==
  \E m \in Muts : \E k \in mut[m].cancelled :
    mut[m].pc = "pending" /\ m \in overlay[k]

\* C19: when a mutation fails and the hook runs a caller-supplied error
\* callback, every key that onMutate wrote holds, at the moment the callback
\* runs, the data it held right before onMutate wrote it.
C19_RestoredBeforeCallerOnError ==
  \A m \in Muts :
    (mut[m].outcome = "error" /\ mut[m].reported.called) => mut[m].reported.restored

\* C17, first half: once a successful mutation has settled, every key its
\* onMutate wrote is covered by a filter its handlers gave to invalidateQueries.
C17_MarkedAfterSuccess ==
  \A m \in Muts :
    (mut[m].pc = "done" /\ mut[m].outcome = "success") =>
      \A k \in mut[m].patched : \E flt \in mut[m].marks : Matches(flt, k)

\* C17, second half: for a key a query hook fetches, once a successful mutation
\* wrote it, no mutation is pending or settling and the refetch has arrived, the
\* entry is the server's state and holds no optimistic placeholder.
C17_ServerStateAfterRefetch ==
  \A k \in QueryHookKeys :
    ( /\ \E m \in Muts : mut[m].outcome = "success" /\ k \in mut[m].patched
      /\ \A m \in Muts : mut[m].pc \in {"idle", "done"}
      /\ fetch[k].status = "idle" /\ ~invalidated[k] )
    => /\ cache[k] = QueryFn(k, server)
       /\ \A i \in 1..Len(cache[k].entries) :
            \A j \in 1..Len(OptimisticIds) :
              /\ "id" \in DOMAIN cache[k].entries[i] =>
                   cache[k].entries[i].id # OptimisticIds[j]
              /\ "accountId" \in DOMAIN cache[k].entries[i] =>
                   cache[k].entries[i].accountId # OptimisticIds[j]

\* C17: after a mutation succeeds the keys it wrote are marked for refetch, and
\* once every mutation has settled and the refetch has completed the entry
\* equals the server's state, without an optimistic placeholder.
C17_RefetchReplacesPlaceholder ==
  C17_MarkedAfterSuccess /\ C17_ServerStateAfterRefetch

\* C12: for every paginated query hook, with or without caller options, while
\* the page asked for is not loaded and the page asked for before was cached,
\* the hook returns data and not undefined.
C12_PreviousPageKept ==
  (view.hook # "none" /\ view.fromCached /\ view.params \notin view.loaded)
    => view.data # 0

LinearBase(fn) ==
  CASE fn = "postPayment" -> RETRY_DELAY_payment
    [] fn \in {"getSubscriptions", "createSubscription"} -> LINEAR_BASE_subscriptions
    [] fn = "createZuoraHppInstance" -> LINEAR_BASE_hpp
    [] fn = "getInvoices" -> LINEAR_BASE_invoices
    [] fn = "putPaymentTransaction" -> LINEAR_BASE_paymentTransactions
LinearFns ==
  { "postPayment", "getSubscriptions", "createSubscription",
    "createZuoraHppInstance", "getInvoices", "putPaymentTransaction" }

\* C22: a call of a transport with linear backoff that has failed waited one
\* delay between each two consecutive attempts and none after the last, the
\* k-th delay being base * k.
C22_LinearBackoffBetweenAttempts ==
  (call.fn \in LinearFns /\ call.pc = "done" /\ call.state = "rejected") =>
    /\ Len(call.delays) = call.sent - 1
    /\ \A k \in 1..Len(call.delays) : call.delays[k] = LinearBase(call.fn) * k

\* C23: the step that handles a 401 for a request sent with a token leaves the
\* stored token alone when that token is a different one, stored by another
\* postIdentityToken call that succeeded while the request was out.
C23_UnauthorizedKeepsNewerToken ==
  [][\A i \in Reqs :
       ( /\ reqs[i].pc = "inflight" /\ reqs'[i].pc = "done" /\ reqs'[i].last = 401
         /\ reqs[i].hdr # NoToken
         /\ reqs[i].newer # NoToken /\ reqs[i].newer # reqs[i].hdr
         /\ token["identity"] = reqs[i].newer )
       => token'["identity"] = reqs[i].newer]_vars

\* C24: when usePutPaymentTransaction or useAuthorizeClient fails, every key
\* its onMutate wrote that held no data before the write holds no data again
\* once onError has run.
C24_ProvisionalValueRemoved ==
  [][\A m \in Muts :
       ( /\ mut[m].hook \in {"usePutPaymentTransaction", "useAuthorizeClient"}
         /\ mut[m].pc = "pending" /\ mut'[m].outcome = "error" )
       => \A k \in mut[m].patched :
            mut[m].before[k] = Undefined => cache'[k] = Undefined]_vars

\* C25: for a failing mutation of a hook that was handed caller options, the
\* onError step still puts back the data every patched key held before the
\* patch, and the onSettled step still gives invalidateQueries a filter
\* covering every patched key.
C25_CallerOptionsKeepHandlers ==
  [][\A m \in Muts :
       ( /\ mut[m].hook = "usePutPaymentTransaction"
         /\ mut[m].v.options # {} )
       => /\ (mut[m].pc = "pending" /\ mut'[m].outcome = "error") =>
               \A k \in mut[m].patched :
                 mut[m].before[k] # Undefined => cache'[k] = mut[m].before[k]
          /\ (mut[m].pc = "settling" /\ mut[m].outcome = "error"
                /\ mut'[m].pc = "done") =>
               \A k \in mut[m].patched :
                 \E flt \in mut'[m].marks : Matches(flt, k)]_vars

\* C26: whatever the attempts of a transport call receive, the call never
\* issues more requests than the largest retry ceiling plus one, and a call
\* that is over has resolved or failed.
C26_CallSettlesAfterBoundedAttempts ==
  /\ call.sent <= MAX_RETRIES_paymentMethods + 1
  /\ call.pc = "done" => call.state \in {"resolved", "rejected"}
  /\ (call.pc = "head" /\ call.sent = MAX_RETRIES_paymentMethods + 1) =>
       ~Guard(call.fn, call.attempt)

\* A recursive and a loop-based call that failed after their last attempt.
C26_Witness ==
  /\ call.pc = "done" /\ call.state = "rejected"
  /\ \/ call.fn = "getPaymentMethods" /\ call.sent = MAX_RETRIES_paymentMethods + 1
     \/ call.fn = "putRecurringPaymentMethod" /\ call.sent = MAX_RETRIES_recurring + 1

\* C27: a step changes the stored identity token only if it is the arrival of
\* a response to a postIdentityToken request, and then either the response is
\* a success carrying a token, which becomes the stored token, or it is a 401
\* and the stored token is cleared.
C27_IdentityTokenFrame ==
  [][token'["identity"] # token["identity"] =>
       /\ call.fn = "postIdentityToken" /\ call.pc = "inflight"
       /\ \/ /\ call'.lastResp.status = 200
             /\ call'.lastResp.tok # NoToken
             /\ token'["identity"] = call'.lastResp.tok
          \/ /\ call'.lastResp.status = 401
             /\ token'["identity"] = NoToken]_vars

\* A postIdentityToken call has failed after a retry without a 401, and the
\* token stored by an earlier call is still there.
C27_Witness ==
  /\ call.fn = "postIdentityToken" /\ call.pc = "done" /\ call.sent > 1
  /\ call.lastResp.status \in {0, 400, 503}
  /\ token["identity"] # NoToken

\* C28: a getCountries call that is over has resolved; when its last attempt
\* failed it made every attempt and resolved with the result {data: [],
\* error}, error being the body of the last response if it had one and the
\* empty object otherwise.
C28_GetCountriesNeverFails ==
  (call.fn = "getCountries" /\ call.pc = "done") =>
    /\ call.state = "resolved"
    /\ call.lastResp.status # 200 =>
         /\ call.sent = MAX_RETRIES_countries
         /\ call.val.kind = "countriesResult"
         /\ call.val.body =
              IF call.lastResp.status # 0 THEN call.lastResp.body ELSE NoBody

\* getCountries is over after its last attempt was answered with an error
\* response that carries a body.
C28_Witness ==
  /\ call.fn = "getCountries" /\ call.pc = "done"
  /\ call.lastResp.status = 503 /\ call.lastResp.body # NoBody
  /\ call.val.body = call.lastResp.body

\* C29: a submission calls the creations in the order customer, payment
\* method, subscription, each only after the one before it resolved; none is
\* called when validation fails or after one rejected; onSuccess is called at
\* most once and only after all three resolved; onError is called once when a
\* creation rejected.
C29_CheckoutCreationsInOrder ==
  /\ Len(checkout.issued) <= Len(Creations)
  /\ \A i \in 1..Len(checkout.issued) :
       /\ checkout.issued[i] = Creations[i]
       /\ i > 1 => Creations[i - 1] \in checkout.succeeded
  /\ ~checkout.valid => checkout.issued = << >>
  /\ checkout.failed # "none" =>
       /\ checkout.pc = "done"
       /\ checkout.issued[Len(checkout.issued)] = checkout.failed
       /\ checkout.props.onError => checkout.onErrorCalls = 1
  /\ checkout.onSuccessCalls <= 1 /\ checkout.onErrorCalls <= 1
  /\ checkout.onSuccessCalls = 1 =>
       checkout.succeeded = {Creations[i] : i \in 1..Len(Creations)}

\* A submission has stopped at the payment method, which rejected, and
\* onError has been called.
C29_Witness ==
  /\ checkout.pc = "done" /\ checkout.failed = "paymentMethod"
  /\ checkout.issued = <<"customer", "paymentMethod">>
  /\ checkout.onErrorCalls = 1 /\ checkout.onSuccessCalls = 0

\* The fields of an entry the patch of useUpdateCustomer may write.
C30_PatchedFields ==
  {"firstName", "lastName", "email", "phoneNumber", "addresses", "additionalEmails"}

\* C30: the step in which useUpdateCustomer(accountId) patches the cached list
\* keeps total, page, pageSize and the number and order of the entries; an
\* entry with another accountId is unchanged; an entry with that accountId
\* keeps every field other than firstName, lastName, email, phoneNumber,
\* addresses and additionalEmails; no other key changes.
C30_UpdateCustomerPatchFrame ==
  [][\A m \in Muts :
       ( /\ mut[m].hook = "useUpdateCustomer"
         /\ mut[m].pc = "mutating" /\ mut'[m].pc = "pending"
         /\ cache[KeyCustomers] # Undefined )
       => LET old == cache[KeyCustomers]
              new == cache'[KeyCustomers]
          IN /\ DOMAIN new = DOMAIN old
             /\ \A f \in DOMAIN old \ {"entries"} : new[f] = old[f]
             /\ Len(new.entries) = Len(old.entries)
             /\ \A i \in 1..Len(old.entries) :
                  IF old.entries[i].accountId = mut[m].v.accountId
                    THEN /\ DOMAIN new.entries[i] = DOMAIN old.entries[i]
                         /\ \A f \in DOMAIN old.entries[i] \ C30_PatchedFields :
                              new.entries[i][f] = old.entries[i][f]
                    ELSE new.entries[i] = old.entries[i]
             /\ \A k \in Keys \ {KeyCustomers} : cache'[k] = cache[k]]_vars

\* A patch is in the list: the entry of the hook's accountId is rewritten and
\* an entry with another accountId is as the server sent it.
C30_Witness ==
  \E m \in Muts :
    /\ mut[m].hook = "useUpdateCustomer" /\ mut[m].pc = "pending"
    /\ KeyCustomers \in mut[m].patched
    /\ \E i, j \in 1..Len(cache[KeyCustomers].entries) :
         /\ cache[KeyCustomers].entries[i].accountId = mut[m].v.accountId
         /\ cache[KeyCustomers].entries[i].firstName = "Bob"
         /\ cache[KeyCustomers].entries[j] = Customer("c2", "Cy")

====
